---------------------------- MODULE Spec2Model ----------------------------
(***************************************************************************)
(* A model of cruft's template resolution and context assembly:            *)
(*   src/cruft/_commands/create.py             (create)                    *)
(*   src/cruft/_commands/utils/cookiecutter.py (get_cookiecutter_repo,     *)
(*        _validate_cookiecutter, generate_cookiecutter_context, ...)      *)
(*                                                                         *)
(* Python strings are sequences of one-character strings, so that          *)
(* `in`, str.replace, str.startswith and re.sub are computed character by  *)
(* character.  An Optional value is a set: {} is None, {x} is the value x. *)
(***************************************************************************)
EXTENDS Naturals, Sequences, FiniteSets, TLC

(***************************************************************************)
(* Bounds of the model.                                                    *)
(***************************************************************************)
\* the longest checkout string, counted in tokens of PolicyTokens
MaxTokens == 2
\* the most tags the cloned repository holds
MaxTags == 2
\* the most calls of generate_cookiecutter_context in one session
MaxRuns == 2

(***************************************************************************)
(* Strings.                                                                *)
(***************************************************************************)
\* cookiecutter.py:26
LATEST == <<":", "l", "a", "t", "e", "s", "t", ":">>
\* cookiecutter.py:27
BRANCH == <<"b", "r", "a", "n", "c", "h", ":">>
HEAD == <<"H", "E", "A", "D">>

Digits == {"0", "1", "2", "3", "4", "5", "6", "7", "8", "9"}

\* Python's `t in s` for strings: t is a contiguous part of s
Contains(s, t) ==
    \E i \in 0..(Len(s) - Len(t)) : SubSeq(s, i + 1, i + Len(t)) = t

\* Python's s.startswith(t)
StartsWith(s, t) == Len(t) <= Len(s) /\ SubSeq(s, 1, Len(t)) = t

\* Python's s.replace(t, ""), t non-empty: every occurrence of t, found from
\* the left and not overlapping, is removed
RECURSIVE Remove(_, _)
Remove(s, t) ==
    IF Len(s) < Len(t) THEN s
    ELSE IF SubSeq(s, 1, Len(t)) = t THEN Remove(SubSeq(s, Len(t) + 1, Len(s)), t)
    ELSE <<Head(s)>> \o Remove(Tail(s), t)

\* re.sub(r"[^0-9.]", "", s)
StripNonNumeric(s) == SelectSeq(s, LAMBDA c : c \in Digits \cup {"."})

(***************************************************************************)
(* packaging.version, for the strings StripNonNumeric leaves (digits and   *)
(* dots): such a string is a version iff it is digit groups joined by      *)
(* single dots; the version is its release tuple.                          *)
(***************************************************************************)
DigitValue(c) ==
    CASE c = "0" -> 0 [] c = "1" -> 1 [] c = "2" -> 2 [] c = "3" -> 3
      [] c = "4" -> 4 [] c = "5" -> 5 [] c = "6" -> 6 [] c = "7" -> 7
      [] c = "8" -> 8 [] c = "9" -> 9

DigitChar(d) ==
    CASE d = 0 -> "0" [] d = 1 -> "1" [] d = 2 -> "2" [] d = 3 -> "3"
      [] d = 4 -> "4" [] d = 5 -> "5" [] d = 6 -> "6" [] d = 7 -> "7"
      [] d = 8 -> "8" [] d = 9 -> "9"

\* the dot-separated parts of s, as s.split(".") gives them
RECURSIVE Split(_, _)
Split(s, cur) ==
    IF s = <<>> THEN <<cur>>
    ELSE IF Head(s) = "." THEN <<cur>> \o Split(Tail(s), <<>>)
    ELSE Split(Tail(s), Append(cur, Head(s)))

\* int(digits)
RECURSIVE ToInt(_, _)
ToInt(ds, acc) ==
    IF ds = <<>> THEN acc ELSE ToInt(Tail(ds), acc * 10 + DigitValue(Head(ds)))

\* str(n)
RECURSIVE IntStr(_)
IntStr(n) ==
    IF n < 10 THEN <<DigitChar(n)>> ELSE Append(IntStr(n \div 10), DigitChar(n % 10))

\* whether version.parse(s) accepts s (a string of digits and dots)
IsVersion(s) ==
    LET parts == Split(s, <<>>)
    IN  \A i \in 1..Len(parts) : parts[i] # <<>>

\* version.parse(s).release
Release(s) ==
    LET parts == Split(s, <<>>)
    IN  [i \in 1..Len(parts) |-> ToInt(parts[i], 0)]

\* the comparison key of a release: its trailing zeros dropped
RECURSIVE CmpKey(_)
CmpKey(r) ==
    IF r # <<>> /\ r[Len(r)] = 0 THEN CmpKey(SubSeq(r, 1, Len(r) - 1)) ELSE r

\* Python's tuple comparison a > b
RECURSIVE TupleGreater(_, _)
TupleGreater(a, b) ==
    IF a = <<>> THEN FALSE
    ELSE IF b = <<>> THEN TRUE
    ELSE IF Head(a) # Head(b) THEN Head(a) > Head(b)
    ELSE TupleGreater(Tail(a), Tail(b))

\* Version(a) > Version(b), by release
VersionGreater(a, b) == TupleGreater(CmpKey(a), CmpKey(b))

\* str(Version): the release's numbers in decimal, joined by dots
RECURSIVE VersionStr(_)
VersionStr(r) ==
    IF Len(r) = 1 THEN IntStr(r[1])
    ELSE IntStr(Head(r)) \o <<".">> \o VersionStr(Tail(r))


(***************************************************************************)
(* get_cookiecutter_repo: which ref a checkout string selects.             *)
(***************************************************************************)
Some(x) == {x}
The(o) == CHOOSE x \in o : TRUE

\* cookiecutter.py:77-81: the greatest version among the tags, from 0.0.0.
\* A tag whose stripped name is no version compares below every version
\* (packaging's legacy versions), so the loop passes over it.
RECURSIVE LatestVersion(_, _)
LatestVersion(refs, latest) ==
    IF refs = <<>> THEN latest
    ELSE LET s == StripNonNumeric(Head(refs))
         IN  IF IsVersion(s) /\ VersionGreater(Release(s), latest)
             THEN LatestVersion(Tail(refs), Release(s))
             ELSE LatestVersion(Tail(refs), latest)

\* cookiecutter.py:70-88: the ref of the Latest policy, or the exception
\* raised.  strict: the installed packaging raises InvalidVersion for a
\* string that is no version, instead of giving a legacy version.
LatestRef(refs, strict) ==
    IF refs = <<>> THEN [outcome |-> "ok", ref |-> HEAD]
    ELSE IF strict /\ \E i \in 1..Len(refs) : ~IsVersion(StripNonNumeric(refs[i]))
    THEN [outcome |-> "InvalidVersion", ref |-> <<>>]
    ELSE LET vers == VersionStr(LatestVersion(refs, <<0, 0, 0>>))
             ref_l == SelectSeq(refs, LAMBDA name : Contains(name, vers))
         IN  IF vers = <<"0", ".", "0", ".", "0">> THEN [outcome |-> "ok", ref |-> HEAD]
             ELSE IF ref_l = <<>> THEN [outcome |-> "AssertionError", ref |-> <<>>]
             ELSE [outcome |-> "ok", ref |-> ref_l[1]]

\* cookiecutter.py:69-91: the arm taken for a checkout string, and its ref
ResolveRef(checkout, refs, strict) ==
    IF Contains(LATEST, checkout)
    THEN [arm |-> "latest"] @@ LatestRef(refs, strict)
    ELSE IF Contains(checkout, BRANCH)
    THEN [arm |-> "branch", outcome |-> "ok", ref |-> Remove(checkout, BRANCH)]
    ELSE [arm |-> "explicit", outcome |-> "ok", ref |-> checkout]


(***************************************************************************)
(* The inputs and the environment of one create call.                      *)
(***************************************************************************)
\* the parts checkout strings are made of
PolicyTokens == {LATEST, BRANCH, <<"d", "e", "v">>, <<"t">>}

RECURSIVE StringsOf(_)
StringsOf(n) ==
    IF n = 0 THEN {<<>>}
    ELSE StringsOf(n - 1) \cup {s \o t : s \in StringsOf(n - 1), t \in PolicyTokens}

\* create's checkout argument: None or a string
CheckoutArgs == {{}} \cup {Some(s) : s \in StringsOf(MaxTokens) \ {<<>>}}

\* the names the repository's tags may have
TagNames ==
    { <<"v", "1", ".", "0", ".", "0">>, <<"v", "1", ".", "2">>,
      <<"v", "0", ".", "1", "1", ".", "2">>, <<"v", "1", ".", "0", "2">>,
      <<"r", "e", "l", "e", "a", "s", "e">> }

\* the tags of a repository, in the order repo.refs lists them: no name twice
TagLists ==
    UNION { {l \in [1..n -> TagNames] : \A i, j \in 1..n : l[i] = l[j] => i = j}
            : n \in 0..MaxTags }

\* the template references given to create
TemplateRefs ==
    { [scheme |-> "", exists |-> TRUE], [scheme |-> "", exists |-> FALSE],
      [scheme |-> "https", exists |-> FALSE] }

\* cookiecutter.py:35-52
resolve_template_url(url) ==
    IF (url.scheme = "" \/ url.scheme = "file") /\ url.exists
    THEN "absolute path" ELSE "as given"

(***************************************************************************)
(* Top-level names of the template directory, for _validate_cookiecutter.  *)
(***************************************************************************)
OPEN == <<"{", "{">>
CLOSE == <<"}", "}">>
CookiecutterDot ==
    <<"c", "o", "o", "k", "i", "e", "c", "u", "t", "t", "e", "r", ".">>

\* {{cookiecutter.x}}
NameTemplate == OPEN \o CookiecutterDot \o <<"x">> \o CLOSE
\* {{x}}
NameBare == OPEN \o <<"x">> \o CLOSE
\* cookiecutter.x
NameNoMarkers == CookiecutterDot \o <<"x">>
\* {{cookiecutter.x
NameOpenOnly == OPEN \o CookiecutterDot \o <<"x">>

Entries ==
    { [name |-> n, is_dir |-> d] :
        n \in {NameTemplate, NameBare, NameNoMarkers, NameOpenOnly}, d \in BOOLEAN }

\* a template directory: at most one entry beside cookiecutter.json
Listings == {{}} \cup {{e} : e \in Entries}

\* Path.glob("*cookiecutter.*") matches the names that hold "cookiecutter."
GlobMatches(name) == Contains(name, CookiecutterDot)

\* _validate_cookiecutter taking a file for the template's directory
validate_cookiecutter_any_entry(dir) ==
    \E dir_item \in dir :
        /\ GlobMatches(dir_item.name)
        /\ Contains(dir_item.name, OPEN)
        /\ Contains(dir_item.name, CLOSE)

\* cookiecutter.py:103-112: whether _validate_cookiecutter returns
\* (it raises UnableToFindCookiecutterTemplate otherwise)
validate_cookiecutter(dir) ==
    \E dir_item \in dir :
        /\ GlobMatches(dir_item.name)
        /\ dir_item.is_dir
        /\ Contains(dir_item.name, OPEN)
        /\ Contains(dir_item.name, CLOSE)


(***************************************************************************)
(* Contexts: cookiecutter's dicts from variable names to values.           *)
(***************************************************************************)
KeyName == <<"n">>
KeyEngine == <<"_", "e">>
\* cookiecutter.py:175
KeyTemplate == <<"_", "t", "e", "m", "p", "l", "a", "t", "e">>

Keys == {KeyName, KeyEngine, KeyTemplate}
\* the values the user's answers are among
Values == {"a", "b"}
\* the values callers give in extra_context
ExtraValues == {"a"}
\* the template reference generate_cookiecutter_context is given
TemplateUrl == "u"

Dicts(keys, values) == UNION {[d -> values] : d \in SUBSET keys}
EmptyDict == <<>>
Dict1(k, v) == [x \in {k} |-> v]

\* Python's d.update(other) / {**d, **other}: other's entries win
Update(d, other) ==
    [k \in DOMAIN d \cup DOMAIN other |-> IF k \in DOMAIN other THEN other[k] ELSE d[k]]

\* cookiecutter.py:162, key.startswith("_")
IsEngineKey(key) == StartsWith(key, <<"_">>)

Restrict(d, keys) == [k \in keys |-> d[k]]

\* cookiecutter.py:150-153: the extra context after a replay file was loaded
\* (an Optional extra context, the loaded replay_context["cookiecutter"])
MergeReplay(extra_context, replay) ==
    IF extra_context # {} THEN Update(The(extra_context), replay) ELSE replay

\* cookiecutter.py:158-165, the keys that start with "_"
EngineVars(extra) == Restrict(extra, {k \in DOMAIN extra : IsEngineKey(k)})

\* cookiecutter.py:158-165, the other keys
UserVars(extra) == Restrict(extra, {k \in DOMAIN extra : ~IsEngineKey(k)})

\* cookiecutter.generate.generate_context, called at cookiecutter.py:166-170:
\* the variables the template's cookiecutter.json declares, overwritten by
\* the default context and then by the extra context
generate_context(template_json, default_context, extra) ==
    LET known(d) == Restrict(d, DOMAIN d \cap DOMAIN template_json)
    IN  Update(Update(template_json, known(default_context)), known(extra))

\* cookiecutter.prompt.prompt_for_config, called at cookiecutter.py:174: the
\* dicts it may return.  With no_input the context passes through; otherwise
\* the user answers for each variable that is no engine variable.
prompt_for_config(context, no_input) ==
    IF no_input THEN {context}
    ELSE {d \in [DOMAIN context -> Values \cup {context[k] : k \in DOMAIN context}] :
            \A k \in DOMAIN context : IsEngineKey(k) => d[k] = context[k]}

\* cookiecutter.py:175-176
FinalContext(answered, url, jinja2_env_vars) ==
    Update(Update(answered, Dict1(KeyTemplate, url)), jinja2_env_vars)


(***************************************************************************)
(* State of a session of generate_cookiecutter_context calls.              *)
(***************************************************************************)
VARIABLES
    cpc,              \* the step the call is at, or "done" / "failed"
    run,              \* the number of the call
    template_dir,     \* the top-level entries of cookiecutter_template_dir
    template_json,    \* the variables cookiecutter.json declares
    default_context,  \* config_dict["default_context"]
    extra_context,    \* the argument: None or a dict
    no_input,         \* the argument
    replay_file,      \* the argument: None or the replay file's name
    replay_store,     \* the replay file: where it is and what it holds
    replay_context,   \* cookiecutter.py:145, what load_replay returned
    merged,           \* extra_context after cookiecutter.py:150-153
    jinja2_env_vars,  \* cookiecutter.py:158
    user_context,     \* cookiecutter.py:159
    context,          \* context["cookiecutter"]
    result,           \* the context returned: None until the call returns
    cerr,             \* the exception the call raised
    prev              \* the previous call: its arguments and its outcome

ctx_vars ==
    <<cpc, run, template_dir, template_json, default_context, extra_context,
      no_input, replay_file, replay_store, replay_context, merged,
      jinja2_env_vars, user_context, context, result, cerr, prev>>

NoCall == [ok |-> FALSE, replay_file |-> {}, result |-> {}, stored |-> {}]
MissingReplay == [where |-> "nowhere", data |-> {}]

\* no generate_cookiecutter_context call is running
CtxIdle ==
    /\ cpc = "idle"
    /\ run = 0
    /\ template_dir = {}
    /\ template_json = EmptyDict
    /\ default_context = EmptyDict
    /\ extra_context = {}
    /\ no_input = TRUE
    /\ replay_file = {}
    /\ replay_store = MissingReplay
    /\ replay_context = {}
    /\ merged = {}
    /\ jinja2_env_vars = EmptyDict
    /\ user_context = EmptyDict
    /\ context = EmptyDict
    /\ result = {}
    /\ cerr = "none"
    /\ prev = NoCall

(***************************************************************************)
(* State of a create call.                                                 *)
(***************************************************************************)
VARIABLES
    pc,                \* the step create is at, or "raised" / "returned"
    template_ref,      \* the template reference create was given
    template_git_url,  \* create.py:30, the resolved reference
    checkout,          \* create's checkout: the argument, then cruft_state's
    cruft_state,       \* create.py:31, the dict get_cookiecutter_repo updates
    tmpdir,            \* the AltTemporaryDirectory of create.py:35
    refs,              \* the tag names of the cloned repository
    listing,           \* the top-level entries of the cloned template
    arm,               \* the arm of cookiecutter.py:70-90 that was taken
    checked_out,       \* the ref given to repo.git.checkout, when called
    err,               \* the exception create raised
    collab_failed,     \* whether a collaborator reported a failure
    steps              \* the steps of create that have run, in order

create_vars ==
    <<pc, template_ref, template_git_url, checkout, cruft_state, tmpdir, refs,
      listing, arm, checked_out, err, collab_failed, steps>>

\* the kinds of error cruft defines (cruft.exceptions)
CruftErrors ==
    { "InvalidCookiecutterRepository", "UnableToFindCookiecutterTemplate",
      "InvalidCookiecutterReplay", "CruftError" }

\* the template directories a clone may bring
CreateListings == {{}, {[name |-> NameTemplate, is_dir |-> TRUE]}}

\* AltTemporaryDirectory.__enter__: the directory exists
AltTemporaryDirectory_enter == "present"

\* AltTemporaryDirectory.__exit__: the directory is removed
AltTemporaryDirectory_exit == "removed"

\* an exception raised inside the with block of create.py:35 without cleanup
RaiseNoCleanup(e) ==
    /\ pc' = "raised"
    /\ err' = e
    /\ UNCHANGED tmpdir

\* create.py:35-86: an exception raised inside the with block leaves through
\* AltTemporaryDirectory's exit and reaches create's caller
Raise(e) ==
    /\ pc' = "raised"
    /\ err' = e
    /\ tmpdir' = AltTemporaryDirectory_exit

CreateInit ==
    /\ pc = "ResolveReference"
    /\ template_ref \in TemplateRefs
    /\ template_git_url = "unset"
    /\ checkout \in CheckoutArgs
    /\ cruft_state = [template |-> "unset", checkout |-> {}]
    /\ tmpdir = "not created"
    /\ refs = <<>>
    /\ listing = {}
    /\ arm = "none"
    /\ checked_out = {}
    /\ err = "none"
    /\ collab_failed = FALSE
    /\ steps = <<>>
    /\ CtxIdle

\* create.py:30-34
ResolveReference ==
    /\ pc = "ResolveReference"
    /\ template_git_url' = resolve_template_url(template_ref)
    /\ cruft_state' = [template |-> resolve_template_url(template_ref),
                       checkout |-> checkout]
    /\ steps' = Append(steps, "ResolveReference")
    /\ pc' = "EnterTempDir"
    /\ UNCHANGED <<template_ref, checkout, tmpdir, refs, listing, arm,
                   checked_out, err, collab_failed>>
    /\ UNCHANGED ctx_vars

\* create.py:35-36
EnterTempDir ==
    /\ pc = "EnterTempDir"
    /\ tmpdir' = AltTemporaryDirectory_enter
    /\ pc' = "CloneRepo"
    /\ UNCHANGED <<template_ref, template_git_url, checkout, cruft_state, refs,
                   listing, arm, checked_out, err, collab_failed, steps>>
    /\ UNCHANGED ctx_vars

\* create.py:37, cookiecutter.py:60-63: Repo.clone_from succeeds
CloneOk ==
    /\ pc = "CloneRepo"
    /\ \E r \in TagLists, l \in CreateListings : refs' = r /\ listing' = l
    /\ steps' = Append(steps, "CloneRepo")
    /\ pc' = IF cruft_state.checkout = {} THEN "ReadCommit" ELSE "ResolveCheckout"
    /\ UNCHANGED <<template_ref, template_git_url, checkout, cruft_state, tmpdir,
                   arm, checked_out, err, collab_failed>>
    /\ UNCHANGED ctx_vars

\* cookiecutter.py:62-67: Repo.clone_from raises GitCommandError
CloneFail ==
    /\ pc = "CloneRepo"
    /\ steps' = Append(steps, "CloneRepo")
    /\ collab_failed' = TRUE
    /\ Raise("InvalidCookiecutterRepository")
    /\ UNCHANGED <<template_ref, template_git_url, checkout, cruft_state, refs,
                   listing, arm, checked_out>>
    /\ UNCHANGED ctx_vars

\* cookiecutter.py:68-92: the ref is selected and stored in cruft_state,
\* or the selection raises
ResolveCheckout ==
    /\ pc = "ResolveCheckout"
    /\ \E strict \in BOOLEAN :
         LET r == ResolveRef(The(cruft_state.checkout), refs, strict)
         IN  /\ arm' = r.arm
             /\ IF r.outcome = "ok"
                THEN /\ cruft_state' = [cruft_state EXCEPT !.checkout = Some(r.ref)]
                     /\ pc' = "Checkout"
                     /\ UNCHANGED <<err, tmpdir>>
                ELSE /\ Raise(r.outcome)
                     /\ UNCHANGED cruft_state
    /\ steps' = Append(steps, "ResolveCheckout")
    /\ UNCHANGED <<template_ref, template_git_url, checkout, refs, listing,
                   checked_out, collab_failed>>
    /\ UNCHANGED ctx_vars

\* cookiecutter.py:93-94, 100: repo.git.checkout(ref) succeeds
CheckoutOk ==
    /\ pc = "Checkout"
    /\ checked_out' = cruft_state.checkout
    /\ steps' = Append(steps, "Checkout")
    /\ pc' = "ReadCommit"
    /\ UNCHANGED <<template_ref, template_git_url, checkout, cruft_state, tmpdir,
                   refs, listing, arm, err, collab_failed>>
    /\ UNCHANGED ctx_vars

\* cookiecutter.py:93-99: repo.git.checkout(ref) raises GitCommandError
CheckoutFail ==
    /\ pc = "Checkout"
    /\ checked_out' = cruft_state.checkout
    /\ steps' = Append(steps, "Checkout")
    /\ collab_failed' = TRUE
    /\ Raise("InvalidCookiecutterRepository")
    /\ UNCHANGED <<template_ref, template_git_url, checkout, cruft_state, refs,
                   listing, arm>>
    /\ UNCHANGED ctx_vars

\* create.py:40-44
ReadCommit ==
    /\ pc = "ReadCommit"
    /\ checkout' = cruft_state.checkout
    /\ steps' = Append(steps, "ReadCommit")
    /\ pc' = "ExtraContextFile"
    /\ UNCHANGED <<template_ref, template_git_url, cruft_state, tmpdir, refs,
                   listing, arm, checked_out, err, collab_failed>>
    /\ UNCHANGED ctx_vars

\* create.py:46-47, cookiecutter.py:193-198: no file is named, or it is
\* missing, or json.load reads it
ExtraContextFileOk ==
    /\ pc = "ExtraContextFile"
    /\ pc' = "AssembleContext"
    /\ UNCHANGED <<template_ref, template_git_url, checkout, cruft_state, tmpdir,
                   refs, listing, arm, checked_out, err, collab_failed, steps>>
    /\ UNCHANGED ctx_vars

\* create.py:46-47, cookiecutter.py:196-197: json.load raises on the file
ExtraContextFileFail ==
    /\ pc = "ExtraContextFile"
    /\ collab_failed' = TRUE
    /\ Raise("JSONDecodeError")
    /\ UNCHANGED <<template_ref, template_git_url, checkout, cruft_state, refs,
                   listing, arm, checked_out, steps>>
    /\ UNCHANGED ctx_vars

\* create.py:48-57 calls generate_cookiecutter_context with eight positional
\* arguments (last_commit is the second); cookiecutter.py:115-123 declares
\* seven parameters, so the call raises TypeError before the body runs.
\* create.py:59-86 (generate_files, the write of .cruft.json, the return) lie
\* behind this call: no run reaches them, and create has no step for them.
AssembleContext ==
    /\ pc = "AssembleContext"
    /\ steps' = Append(steps, "AssembleContext")
    /\ Raise("TypeError")
    /\ UNCHANGED <<template_ref, template_git_url, checkout, cruft_state, refs,
                   listing, arm, checked_out, collab_failed>>
    /\ UNCHANGED ctx_vars

CreateNext ==
    \/ ResolveReference
    \/ EnterTempDir
    \/ CloneOk
    \/ CloneFail
    \/ ResolveCheckout
    \/ CheckoutOk
    \/ CheckoutFail
    \/ ReadCommit
    \/ ExtraContextFileOk
    \/ ExtraContextFileFail
    \/ AssembleContext

vars == <<create_vars, ctx_vars>>

SpecCreate == CreateInit /\ [][CreateNext]_vars



(***************************************************************************)
(* generate_cookiecutter_context, called by itself.                        *)
(***************************************************************************)
\* the extra_context arguments
ExtraArgs == {{}} \cup {Some(d) : d \in Dicts(Keys, ExtraValues)}

\* what the replay file holds before the first call
Snapshots ==
    { EmptyDict,
      Dict1(KeyName, "b"),
      Update(Dict1(KeyName, "b"), Update(Dict1(KeyEngine, "b"), Dict1(KeyTemplate, "b"))) }

\* the replay file: nowhere, at the path given, or in config's replay_dir;
\* data is None when the file cannot be deserialized
ReplayStores ==
    {MissingReplay} \cup
    { [where |-> w, data |-> d] :
        w \in {"path", "replay_dir"}, d \in {{}} \cup {Some(x) : x \in Snapshots} }

\* the cookiecutter.json files of the templates
TemplateJsons ==
    { Dict1(KeyName, "a"), Update(Dict1(KeyName, "a"), Dict1(KeyEngine, "a")) }

\* the default contexts of the user's configuration
DefaultContexts == {EmptyDict, Dict1(KeyName, "b")}

\* no create call is running
CreateIdle ==
    /\ pc = "idle"
    /\ template_ref = [scheme |-> "", exists |-> FALSE]
    /\ template_git_url = "unset"
    /\ checkout = {}
    /\ cruft_state = [template |-> "unset", checkout |-> {}]
    /\ tmpdir = "not created"
    /\ refs = <<>>
    /\ listing = {}
    /\ arm = "none"
    /\ checked_out = {}
    /\ err = "none"
    /\ collab_failed = FALSE
    /\ steps = <<>>

CtxInit ==
    /\ CreateIdle
    /\ cpc = "validate"
    /\ run = 1
    /\ template_dir \in Listings
    /\ template_json \in TemplateJsons
    /\ default_context \in DefaultContexts
    /\ extra_context \in ExtraArgs
    /\ no_input \in BOOLEAN
    /\ replay_file \in {{}, {"r"}}
    /\ replay_store \in ReplayStores
    /\ replay_context = {}
    /\ merged = {}
    /\ jinja2_env_vars = EmptyDict
    /\ user_context = EmptyDict
    /\ context = EmptyDict
    /\ result = {}
    /\ cerr = "none"
    /\ prev = NoCall

\* the call raises e
Fail(e) ==
    /\ cpc' = "failed"
    /\ cerr' = e

\* cookiecutter.py:124, 103-112
Validate ==
    /\ cpc = "validate"
    /\ IF validate_cookiecutter(template_dir)
       THEN cpc' = "config" /\ UNCHANGED cerr
       ELSE Fail("UnableToFindCookiecutterTemplate")
    /\ UNCHANGED <<run, template_dir, template_json, default_context,
                   extra_context, no_input, replay_file, replay_store,
                   replay_context, merged, jinja2_env_vars, user_context,
                   context, result, prev>>
    /\ UNCHANGED create_vars

\* cookiecutter.py:126-129: get_user_config returns config_dict
LoadConfigOk ==
    /\ cpc = "config"
    /\ cpc' = "replay"
    /\ UNCHANGED <<run, template_dir, template_json, default_context,
                   extra_context, no_input, replay_file, replay_store,
                   replay_context, merged, jinja2_env_vars, user_context,
                   context, result, cerr, prev>>
    /\ UNCHANGED create_vars

\* cookiecutter.py:127-129: get_user_config raises; nothing catches it
LoadConfigFail ==
    /\ cpc = "config"
    /\ Fail("InvalidConfiguration")
    /\ UNCHANGED <<run, template_dir, template_json, default_context,
                   extra_context, no_input, replay_file, replay_store,
                   replay_context, merged, jinja2_env_vars, user_context,
                   context, result, prev>>
    /\ UNCHANGED create_vars

\* cookiecutter.py:130-155: the replay file is found and loaded, and its
\* context merged into the extra context; or there is no replay_file
ResolveReplay ==
    /\ cpc = "replay"
    /\ IF replay_file = {}
       THEN /\ merged' = extra_context
            /\ cpc' = "split"
            /\ UNCHANGED <<replay_context, cerr>>
       ELSE IF replay_store.where = "nowhere" \/ replay_store.data = {}
       THEN /\ Fail("InvalidCookiecutterReplay")
            /\ UNCHANGED <<replay_context, merged>>
       ELSE /\ replay_context' = replay_store.data
            /\ merged' = Some(MergeReplay(extra_context, The(replay_store.data)))
            /\ cpc' = "split"
            /\ UNCHANGED cerr
    /\ UNCHANGED <<run, template_dir, template_json, default_context,
                   extra_context, no_input, replay_file, replay_store,
                   jinja2_env_vars, user_context, context, result, prev>>
    /\ UNCHANGED create_vars

\* cookiecutter.py:157-170: the extra context is split and generate_context
\* builds the context from cookiecutter.json
BuildContext ==
    /\ cpc = "split"
    /\ LET extra == IF merged = {} THEN EmptyDict ELSE The(merged)
       IN  /\ jinja2_env_vars' = EngineVars(extra)
           /\ user_context' = UserVars(extra)
           /\ context' = generate_context(template_json, default_context, UserVars(extra))
    /\ cpc' = "prompt"
    /\ UNCHANGED <<run, template_dir, template_json, default_context,
                   extra_context, no_input, replay_file, replay_store,
                   replay_context, merged, result, cerr, prev>>
    /\ UNCHANGED create_vars

\* cookiecutter.py:166-170: generate_context raises; nothing catches it
BuildContextFail ==
    /\ cpc = "split"
    /\ Fail("ContextDecodingException")
    /\ UNCHANGED <<run, template_dir, template_json, default_context,
                   extra_context, no_input, replay_file, replay_store,
                   replay_context, merged, jinja2_env_vars, user_context,
                   context, result, prev>>
    /\ UNCHANGED create_vars

\* cookiecutter.py:174-176, and 190 when no replay file is in use
Prompt ==
    /\ cpc = "prompt"
    /\ \E answered \in prompt_for_config(context, no_input) :
         /\ context' = FinalContext(answered, TemplateUrl, jinja2_env_vars)
         /\ IF replay_file = {}
            THEN /\ cpc' = "done"
                 /\ result' = Some(FinalContext(answered, TemplateUrl, jinja2_env_vars))
            ELSE /\ cpc' = "save"
                 /\ UNCHANGED result
    /\ UNCHANGED <<run, template_dir, template_json, default_context,
                   extra_context, no_input, replay_file, replay_store,
                   replay_context, merged, jinja2_env_vars, user_context,
                   cerr, prev>>
    /\ UNCHANGED create_vars

\* save_replay left out: the replay file keeps what it held
SaveReplaySkipped ==
    /\ cpc = "save"
    /\ result' = Some(context)
    /\ cpc' = "done"
    /\ UNCHANGED <<run, template_dir, template_json, default_context,
                   extra_context, no_input, replay_file, replay_store,
                   replay_context, merged, jinja2_env_vars, user_context,
                   context, cerr, prev>>
    /\ UNCHANGED create_vars

\* cookiecutter.py:178-190: save_replay writes the context to the replay file
SaveReplayOk ==
    /\ cpc = "save"
    /\ replay_store' = [replay_store EXCEPT !.data = Some(context)]
    /\ result' = Some(context)
    /\ cpc' = "done"
    /\ UNCHANGED <<run, template_dir, template_json, default_context,
                   extra_context, no_input, replay_file, replay_context, merged,
                   jinja2_env_vars, user_context, context, cerr, prev>>
    /\ UNCHANGED create_vars

\* cookiecutter.py:179-188: save_replay raises TypeError or ValueError
SaveReplayFail ==
    /\ cpc = "save"
    /\ Fail("InvalidCookiecutterReplay")
    /\ UNCHANGED <<run, template_dir, template_json, default_context,
                   extra_context, no_input, replay_file, replay_store,
                   replay_context, merged, jinja2_env_vars, user_context,
                   context, result, prev>>
    /\ UNCHANGED create_vars

\* the next call of the session, for the same template and configuration
Call ==
    /\ cpc \in {"done", "failed"}
    /\ run < MaxRuns
    /\ run' = run + 1
    /\ prev' = [ok |-> cpc = "done", replay_file |-> replay_file, result |-> result,
                stored |-> replay_store.data]
    /\ extra_context' \in ExtraArgs
    /\ no_input' \in BOOLEAN
    /\ replay_file' \in {{}, {"r"}}
    /\ replay_context' = {}
    /\ merged' = {}
    /\ jinja2_env_vars' = EmptyDict
    /\ user_context' = EmptyDict
    /\ context' = EmptyDict
    /\ result' = {}
    /\ cerr' = "none"
    /\ cpc' = "validate"
    /\ UNCHANGED <<template_dir, template_json, default_context, replay_store>>
    /\ UNCHANGED create_vars

CtxNext ==
    \/ Validate
    \/ LoadConfigOk
    \/ LoadConfigFail
    \/ ResolveReplay
    \/ BuildContext
    \/ BuildContextFail
    \/ Prompt
    \/ SaveReplayOk
    \/ SaveReplayFail
    \/ Call

SpecCtx == CtxInit /\ [][CtxNext]_vars


(***************************************************************************)
(* Properties of create (checked under SpecCreate).                        *)
(***************************************************************************)
\* the checkout call has been made and create's checkout is still its argument
CheckoutCalled == checked_out # {} /\ pc \in {"ReadCommit", "raised"}

\* C1: a checkout string that contains ":latest:" anywhere is resolved as
\* Latest; otherwise one that starts with "branch:" is checked out with exactly
\* that leading prefix removed; any other string is checked out verbatim.
C1_PolicyGrammar ==
    CheckoutCalled =>
        LET s == The(checkout)
            ref == The(checked_out)
        IN  IF Contains(s, LATEST) THEN arm = "latest"
            ELSE IF StartsWith(s, BRANCH)
            THEN arm = "branch" /\ ref = SubSeq(s, Len(BRANCH) + 1, Len(s))
            ELSE arm = "explicit" /\ ref = s

\* the stripped name of a tag parses to a version above 0.0.0
ParsesAboveZero(name) ==
    /\ IsVersion(StripNonNumeric(name))
    /\ VersionGreater(Release(StripNonNumeric(name)), <<0, 0, 0>>)

\* no tag of the list parses to a greater version than name does
IsMaximal(name, tags) ==
    /\ ParsesAboveZero(name)
    /\ \A i \in 1..Len(tags) :
         ParsesAboveZero(tags[i]) =>
            ~VersionGreater(Release(StripNonNumeric(tags[i])),
                            Release(StripNonNumeric(name)))

\* the policy is Latest and some tag parses above 0.0.0
LatestWithVersions ==
    /\ checkout = Some(LATEST)
    /\ arm = "latest"
    /\ \E i \in 1..Len(refs) : ParsesAboveZero(refs[i])

\* C9: under Latest, with a tag that parses above 0.0.0, resolution never
\* fails with "No tag found for version", and the ref it selects is the first
\* tag of the list whose parsed version is the maximum over the list.
C9_LatestSelectsMaximum ==
    LatestWithVersions =>
        /\ err # "AssertionError"
        /\ pc = "Checkout" =>
             \E i \in 1..Len(refs) :
                /\ cruft_state.checkout = Some(refs[i])
                /\ IsMaximal(refs[i], refs)
                /\ \A j \in 1..(i - 1) : ~IsMaximal(refs[j], refs)

\* C4: the temporary clone directory exists before the clone step, is removed
\* whenever create has returned or raised, and no step of create runs once it
\* is removed.
C4_TempDirScoped ==
    /\ pc \in {"raised", "returned"} => tmpdir = "removed"
    /\ tmpdir = "removed" => pc \in {"raised", "returned"} /\ ~ENABLED CreateNext
    /\ pc \in {"CloneRepo", "ResolveCheckout", "Checkout", "ReadCommit",
               "ExtraContextFile", "AssembleContext"} => tmpdir = "present"

\* a create call has failed past the clone and the checkout, and its directory
\* is gone
C4_Witness ==
    /\ pc = "raised"
    /\ err = "TypeError"
    /\ checked_out # {}
    /\ tmpdir = "removed"

\* the error kinds of the system: cruft's exceptions and a configuration error
OwnErrorKinds == CruftErrors \cup {"ConfigurationError"}

\* C5: whatever step fails, the error create raises is one of the system's own
\* kinds, never an error of a collaborator or of Python.
C5_OwnErrorKinds == pc = "raised" => err \in OwnErrorKinds

\* the order of create's steps
StepOrder ==
    <<"ResolveReference", "CloneRepo", "ResolveCheckout", "Checkout", "ReadCommit",
      "AssembleContext", "Render", "WriteState", "Done">>

StepIndex(step) == CHOOSE i \in 1..Len(StepOrder) : StepOrder[i] = step

\* the steps taken are steps of StepOrder, each later in it than the one before
InStepOrder(taken) ==
    /\ \A i \in 1..Len(taken) : \E j \in 1..Len(StepOrder) : StepOrder[j] = taken[i]
    /\ \A i \in 1..(Len(taken) - 1) : StepIndex(taken[i]) < StepIndex(taken[i + 1])

\* the template is valid: it has a template root, and a ref was selected
ValidTemplate ==
    /\ validate_cookiecutter(listing)
    /\ err \notin {"AssertionError", "InvalidVersion"}

\* C6: create's steps run in the order of StepOrder, and a call on a valid
\* template in which every collaborator succeeds ends by returning, after
\* Render, WriteState and Done.
C6_OrderedAndReachesDone ==
    /\ InStepOrder(steps)
    /\ (pc \in {"raised", "returned"} /\ ValidTemplate /\ ~collab_failed) =>
          /\ pc = "returned"
          /\ Len(steps) >= 3
          /\ SubSeq(steps, Len(steps) - 2, Len(steps)) = <<"Render", "WriteState", "Done">>


(***************************************************************************)
(* Properties of generate_cookiecutter_context (checked under SpecCtx).    *)
(***************************************************************************)
\* this call repeats the previous one, which succeeded, with the same replay
\* file, no extra context and no_input
ReplayedCall ==
    /\ run > 1
    /\ prev.ok
    /\ prev.replay_file # {}
    /\ replay_file = prev.replay_file
    /\ extra_context = {}
    /\ no_input

\* C2: a call that succeeded with a replay file, followed by a call for the
\* same template with the same replay file, no extra context and no_input,
\* gives the second call the context of the first, and the second call leaves
\* the replay file holding what the first stored.
C2_ReplayRoundTrip ==
    (cpc = "done" /\ ReplayedCall) =>
        /\ result = prev.result
        /\ replay_store.data = prev.stored

\* a replayed call has returned a context whose engine variable came from the
\* first call's extra context
C2_Witness ==
    /\ cpc = "done"
    /\ ReplayedCall
    /\ KeyEngine \notin DOMAIN template_json
    /\ KeyEngine \in DOMAIN The(result)
    /\ The(result)[KeyEngine] = "a"

\* C3: every underscore-prefixed key of the caller's extra context is in the
\* returned context with the caller's value, and none of them is among the
\* variables handed on to generation and prompting.
C3_EngineKeysPassThrough ==
    extra_context # {} =>
        \A k \in DOMAIN The(extra_context) :
            IsEngineKey(k) =>
               /\ cpc = "done" =>
                    /\ k \in DOMAIN The(result)
                    /\ The(result)[k] = The(extra_context)[k]
               /\ k \notin DOMAIN user_context

\* C8: once a replay file is loaded into an extra context that is a dict, each
\* key of both keeps the caller's value in the merged extra context, and in the
\* returned context under no_input.
C8_CallerWinsOverReplay ==
    (extra_context # {} /\ replay_context # {} /\ merged # {}) =>
        \A k \in DOMAIN The(extra_context) \cap DOMAIN The(replay_context) :
            /\ The(merged)[k] = The(extra_context)[k]
            /\ (cpc = "done" /\ no_input /\ k \in DOMAIN The(result)) =>
                  The(result)[k] = The(extra_context)[k]

\* a top-level directory whose name holds both markers
HasMarkedDirectory(dir) ==
    \E e \in dir : e.is_dir /\ Contains(e.name, OPEN) /\ Contains(e.name, CLOSE)

\* a top-level directory whose name holds both markers and "cookiecutter."
HasCookiecutterDirectory(dir) ==
    \E e \in dir :
        /\ e.is_dir
        /\ Contains(e.name, OPEN)
        /\ Contains(e.name, CLOSE)
        /\ Contains(e.name, CookiecutterDot)

Validated == cpc \notin {"idle", "validate"}

\* C10 as stated: assembly fails with UnableToFindCookiecutterTemplate iff no
\* top-level directory's name holds both "{{" and "}}"; with such a directory
\* validation passes.
C10_FailsIffNoMarkedDirectory ==
    Validated =>
        IF HasMarkedDirectory(template_dir)
        THEN cerr # "UnableToFindCookiecutterTemplate"
        ELSE cpc = "failed" /\ cerr = "UnableToFindCookiecutterTemplate"

\* C10, amended: assembly fails with UnableToFindCookiecutterTemplate iff no
\* top-level directory's name matches *cookiecutter.* and holds both "{{" and
\* "}}"; with such a directory validation passes and assembly goes on.
C10_FailsIffNoCookiecutterDirectory ==
    Validated =>
        IF HasCookiecutterDirectory(template_dir)
        THEN cerr # "UnableToFindCookiecutterTemplate"
        ELSE cpc = "failed" /\ cerr = "UnableToFindCookiecutterTemplate"

\* validation has passed and the configuration is about to be loaded
C10_Witness ==
    /\ cpc = "config"
    /\ HasCookiecutterDirectory(template_dir)

====
